---- MODULE Spec2Model ----
(***************************************************************************)
(* Fitness-Tracker: the Dash dashboards of the repository (app.py and the  *)
(* iterations under .codeoss/.../27ed4561) as one state machine.           *)
(*                                                                         *)
(* The state is the browser-side layout the callbacks read and write (the  *)
(* dcc.Store, the rendered page, the status text), the module-level df     *)
(* read from data.csv at import, data.csv itself, and the callback         *)
(* requests in flight.  One action per user event and one per callback.    *)
(* userActed tells whether the browser has delivered a user event yet.     *)
(***************************************************************************)
EXTENDS Integers, Sequences, FiniteSets, TLC

VARIABLES variant, csvfile, df, pathname, store, page, status, fault, pending, adv, userActed

vars == <<variant, csvfile, df, pathname, store, page, status, fault, pending, adv, userActed>>

routerVars == <<variant, csvfile, df, pathname, store, page, status, fault, pending>>

(***************************************************************************)
(* Bounds of the model.                                                    *)
(***************************************************************************)
\* Entries the add form appends before the model stops adding.
MaxAdded == 2

\* Rows of the data.csv an advice callback is tried on.
MaxRows == 2

\* Rows of the upload the insights callback of IF3H and dKZY is tried on.
MaxDays == 3

(***************************************************************************)
(* Tabular data.  A row is a record Day/Steps/Calories; a table is the     *)
(* set of columns the frame has plus its rows in order.                    *)
(***************************************************************************)
Weekdays == {"Monday", "Tuesday", "Wednesday", "Thursday", "Friday", "Saturday", "Sunday"}

AllCols == {"Day", "Steps", "Calories"}

NaN == "NaN"

\* A column the frame does not have reads as a blank field.
Blank(row, cols) ==
    [Day |-> IF "Day" \in cols THEN row.Day ELSE "",
     Steps |-> IF "Steps" \in cols THEN row.Steps ELSE -1,
     Calories |-> IF "Calories" \in cols THEN row.Calories ELSE -1]

Project(rows, cols) == [i \in DOMAIN rows |-> Blank(rows[i], cols)]

\* pd.Categorical(Day, categories=the seven weekdays): a value outside the
\* categories becomes NaN.
Categorical(d) == IF d \in Weekdays THEN d ELSE NaN

NormalizeDay(rows) == [i \in DOMAIN rows |-> [rows[i] EXCEPT !.Day = Categorical(@)]]

\* Values a dcc.Store holds.
None == [tag |-> "none", cols |-> {}, rows |-> <<>>]

Absent == [tag |-> "absent", cols |-> {}, rows |-> <<>>]

\* DataFrame.to_dict("records"): a list of dicts; with no rows the list is
\* empty and the column names are gone.
to_dict(cols, rows) ==
    [tag |-> "records", cols |-> IF rows = <<>> THEN {} ELSE cols, rows |-> rows]

\* DataFrame.to_json(orient="split"): columns and rows, columns kept.
to_json(cols, rows) == [tag |-> "json", cols |-> cols, rows |-> rows]

(***************************************************************************)
(* Files: an upload payload or data.csv.                                   *)
(***************************************************************************)
\* File names are sequences of characters, so that tests on them are computed.
a_csv == <<"a", ".", "c", "s", "v">>

a_txt == <<"a", ".", "t", "x", "t">>

csv_txt == <<"c", "s", "v", ".", "t", "x", "t">>

NoFile == [name |-> <<>>, kind |-> "none", cols |-> {}, rows |-> <<>>]

CsvFile(name, cols, rows) ==
    [name |-> name, kind |-> "csv", cols |-> cols, rows |-> Project(rows, cols)]

BadFile(name, kind) == [name |-> name, kind |-> kind, cols |-> {}, rows |-> <<>>]

Tue == [Day |-> "Tuesday", Steps |-> 1000, Calories |-> 50]

Mon == [Day |-> "Monday", Steps |-> 500, Calories |-> 25]

Fun == [Day |-> "Funday", Steps |-> 1501, Calories |-> 75]

\* The payloads dropped on the upload widget: valid files with two rows out
\* of weekday order, with a day that is no weekday, with one row and with
\* the header alone; files lacking a column; a file that does not parse; a
\* file that is not UTF-8; valid content under names without .csv.
Files ==
    {CsvFile(a_csv, AllCols, <<Tue, Mon>>), CsvFile(a_csv, AllCols, <<Mon, Fun>>),
     CsvFile(a_csv, AllCols, <<Mon>>), CsvFile(a_csv, AllCols, <<>>),
     CsvFile(a_csv, {"Day", "Steps"}, <<Tue, Mon>>),
     CsvFile(a_csv, {"Steps", "Calories"}, <<Tue, Mon>>),
     BadFile(a_csv, "malformed"), BadFile(a_csv, "undecodable"),
     CsvFile(a_txt, AllCols, <<Tue, Mon>>), CsvFile(csv_txt, AllCols, <<Tue, Mon>>)}

\* data.csv at process start: a valid two-row file.
DefaultFiles == {CsvFile(a_csv, AllCols, <<Mon, Tue>>), CsvFile(a_csv, AllCols, <<Tue, Fun>>)}

\* data.csv with the header alone.
HeaderOnly == CsvFile(a_csv, AllCols, <<>>)

\* data.csv as it can be found later: rewritten, truncated, or unreadable.
DiskFiles ==
    DefaultFiles
    \cup {CsvFile(a_csv, AllCols, <<Fun>>), CsvFile(a_csv, AllCols, <<>>),
          CsvFile(a_csv, {"Day", "Steps"}, <<Tue, Mon>>), BadFile(a_csv, "unreadable")}

(***************************************************************************)
(* Rendering.  A page function either returns a widget tree, described by  *)
(* its kind and the table its numbers and charts were computed from, or    *)
(* raises; err names the exception.                                        *)
(***************************************************************************)
Rendered(kind, data, advice) ==
    [err |-> "none", kind |-> kind, data |-> data, advice |-> advice]

Raised(e) == [err |-> e, kind |-> "", data |-> None, advice |-> ""]

\* make_charts: px.line(x="Day", y="Steps") and px.bar(x="Day", y="Calories")
\* raise ValueError for a column the frame does not have; no rows is fine.
make_charts(t) == IF AllCols \subseteq t.cols THEN "none" ELSE "ValueError"

\* dashboard_page(data) of EUrd, 1pc4, SNbo, OtSo, RSsT: charts, then
\* int(data["Steps"].mean()), which is int(nan) on a frame with no rows.
dashboard_page(t) ==
    IF make_charts(t) # "none" THEN Raised("ValueError")
    ELSE IF t.rows = <<>> THEN Raised("ValueError")
    ELSE Rendered("dashboard", t, "")

\* The thresholds of the delta policy.
DeltaUp == 500

DeltaDown == -500

\* The delta policy with the thresholds taken inclusively.
DeltaAdviceInclusive(diff) ==
    IF diff >= 500 THEN "success"
    ELSE IF diff <= -500 THEN "danger"
    ELSE "warning"

\* if diff_steps > 500 ... elif diff_steps < -500 ... else ...
DeltaAdvice(diff) ==
    IF diff > DeltaUp THEN "success"
    ELSE IF diff < DeltaDown THEN "danger"
    ELSE "warning"

\* insights_page(data) of EUrd, 1pc4, SNbo: data.iloc[-1], data.iloc[-2],
\* the two differences, the advice, the chart.
insights_page(t) ==
    IF Len(t.rows) < 2 THEN Raised("IndexError")
    ELSE IF ~({"Steps", "Calories"} \subseteq t.cols) THEN Raised("KeyError")
    ELSE IF make_charts(t) # "none" THEN Raised("ValueError")
    ELSE Rendered("insights", t,
                  DeltaAdvice(t.rows[Len(t.rows)].Steps - t.rows[Len(t.rows) - 1].Steps))

\* dashboard_page(data) of SfUI: the upload prompt when data is None or
\* empty, else the frame is built from the records.
dashboard_page_SfUI(t) ==
    IF t.tag = "none" \/ Len(t.rows) = 0 THEN Rendered("nodata", t, "")
    ELSE dashboard_page(t)

\* insights_page(data) of SfUI: the same guard, then iloc[-1] and iloc[-2].
insights_page_SfUI(t) ==
    IF t.tag = "none" \/ Len(t.rows) = 0 THEN Rendered("nodata_insights", t, "")
    ELSE insights_page(t)

(***************************************************************************)
(* Loading.  The try-body the upload and refresh callbacks share:          *)
(* pd.read_csv, the Day column made categorical, make_charts.              *)
(***************************************************************************)
\* pd.read_csv(io.StringIO(decoded.decode("utf-8"))) / pd.read_csv("data.csv")
read_csv(f) == IF f.kind = "csv" THEN "none" ELSE "Exception"

\* new_df["Day"] = pd.Categorical(new_df["Day"], ...): KeyError without Day.
categorize(f) == IF "Day" \in f.cols THEN "none" ELSE "KeyError"

\* The table new_df holds after the Day column was made categorical.
new_df(f) == [cols |-> f.cols, rows |-> NormalizeDay(f.rows)]

\* Outcome of the whole try-body: "none" when nothing raised.
load_and_chart(f) ==
    IF read_csv(f) # "none" THEN read_csv(f)
    ELSE IF categorize(f) # "none" THEN categorize(f)
    ELSE make_charts(new_df(f))

\* What a callback hands back: the outputs it sets.  keep marks an output
\* the callback does not have.
Keep == [tag |-> "keep", cols |-> {}, rows |-> <<>>]

Outputs(st, msg, charts) == [store |-> st, status |-> msg, charts |-> charts, err |-> "none"]

\* update_output(contents, filename) of EUrd.
update_output_EUrd(contents, dflt) ==
    IF contents = NoFile
    THEN Outputs(to_dict(AllCols, dflt), "", to_dict(AllCols, dflt))
    ELSE IF load_and_chart(contents) = "none"
         THEN Outputs(to_dict(contents.cols, new_df(contents).rows), "loaded",
                      to_dict(contents.cols, new_df(contents).rows))
         ELSE Outputs(to_dict(AllCols, dflt), "error", None)

\* upload_csv(contents, filename) of SfUI: no chart is drawn in the try-body.
upload_csv_SfUI(contents) ==
    IF contents = NoFile THEN Outputs(to_dict({}, <<>>), "", Keep)
    ELSE IF read_csv(contents) = "none" /\ categorize(contents) = "none"
         THEN Outputs(to_dict(contents.cols, new_df(contents).rows), "loaded", Keep)
         ELSE Outputs(to_dict({}, <<>>), "error", Keep)

\* refresh_from_csv(n_clicks) of 1pc4: reads data.csv again.
refresh_from_csv(n_clicks, disk, dflt) ==
    IF n_clicks = 0
    THEN Outputs(to_dict(AllCols, dflt), "", to_dict(AllCols, dflt))
    ELSE IF load_and_chart(disk) = "none"
         THEN Outputs(to_dict(disk.cols, new_df(disk).rows), "loaded",
                      to_dict(disk.cols, new_df(disk).rows))
         ELSE Outputs(to_dict(AllCols, dflt), "error", None)

\* refresh_or_upload(n_clicks, contents, filename) of SNbo: the branch is
\* chosen by dash.callback_context.triggered.
refresh_or_upload(trigger, n_clicks, contents, disk, dflt) ==
    IF trigger = "upload-data" /\ contents # NoFile
    THEN IF load_and_chart(contents) = "none"
         THEN Outputs(to_dict(contents.cols, new_df(contents).rows), "loaded",
                      to_dict(contents.cols, new_df(contents).rows))
         ELSE Outputs(to_dict(AllCols, dflt), "error", None)
    ELSE IF trigger = "refresh-btn" /\ n_clicks > 0
    THEN IF load_and_chart(disk) = "none"
         THEN Outputs(to_dict(disk.cols, new_df(disk).rows), "loaded",
                      to_dict(disk.cols, new_df(disk).rows))
         ELSE Outputs(to_dict(AllCols, dflt), "error", None)
    ELSE Outputs(to_dict(AllCols, dflt), "", to_dict(AllCols, dflt))

\* 'csv' in filename: the substring test.
HasCsv(name) ==
    \E i \in 1..Len(name) :
        i + 2 <= Len(name) /\ name[i] = "c" /\ name[i + 1] = "s" /\ name[i + 2] = "v"

\* if not {'Day', 'Steps', 'Calories'}.issubset(df.columns)
has_required(f) == AllCols \subseteq f.cols

\* parse_and_store_data(contents, filename) of app.py: every failure
\* prints and returns None.
parse_and_store_data(contents) ==
    IF contents = NoFile THEN Outputs(None, "", Keep)
    ELSE IF ~HasCsv(contents.name) THEN Outputs(None, "notcsv", Keep)
    ELSE IF read_csv(contents) # "none" THEN Outputs(None, "error", Keep)
    ELSE IF ~has_required(contents) THEN Outputs(None, "missing", Keep)
    ELSE Outputs(to_json(contents.cols, contents.rows), "", Keep)

\* parse_contents(contents, filename) of 9UCN, IF3H, dKZY: (df, error).
parse_contents(contents) ==
    IF ~HasCsv(contents.name) THEN [df |-> None, error |-> "notcsv"]
    ELSE IF read_csv(contents) # "none" THEN [df |-> None, error |-> "error"]
    ELSE IF ~has_required(contents) THEN [df |-> None, error |-> "missing"]
    ELSE [df |-> to_json(contents.cols, contents.rows), error |-> ""]

\* update_output(contents, filename) of 9UCN, IF3H, dKZY: the store and the
\* dashboard-content children (an alert, the two graphs, or the prompt).
update_output_9UCN(contents) ==
    IF contents # NoFile
    THEN IF parse_contents(contents).error # ""
         THEN Outputs(None, parse_contents(contents).error, None)
         ELSE Outputs(parse_contents(contents).df, "graphs", None)
    ELSE Outputs(None, "prompt", None)

\* upload_csv(contents, filename) of Ms8I: only the upload-table children;
\* no store is written.
upload_csv_Ms8I(contents) ==
    IF contents = NoFile THEN Outputs(Keep, "", Keep)
    ELSE IF read_csv(contents) # "none" THEN Outputs(Keep, "error", Keep)
    ELSE IF ~has_required(contents) THEN Outputs(Keep, "missing", Keep)
    ELSE Outputs(Keep, "table", to_dict(contents.cols, contents.rows))

(***************************************************************************)
(* The add form of OtSo.                                                   *)
(***************************************************************************)
\* An input field left empty reaches the callback as None.
NoSteps == -1

NoDay == ""

\* int(int(steps) * 0.05)
auto_calories(steps) == steps \div 20

\* add_entry(n_clicks, day, steps, current) of OtSo.
add_entry(n_clicks, day, steps, current) ==
    IF n_clicks = 0 THEN Outputs(current, "", current)
    ELSE IF day = NoDay \/ steps = NoSteps \/ steps = 0
         THEN Outputs(current, "warn", current)
         ELSE LET new_row == [Day |-> day, Steps |-> steps, Calories |-> auto_calories(steps)]
                  df_local == Append(current.rows, new_row)
              IN  Outputs(to_dict(AllCols, df_local), "added", to_dict(AllCols, df_local))

(***************************************************************************)
(* The variants and their layouts.                                         *)
(***************************************************************************)
Variants == {"EUrd", "SfUI", "1pc4", "SNbo", "app", "9UCN", "Ms8I", "OtSo"}

\* Variants that read data.csv into a module-level df at import.
HasDf(v) == v \in {"EUrd", "1pc4", "SNbo", "Ms8I", "OtSo"}

\* Variants whose app.layout holds the dcc.Store next to page-content.
TopStore(v) == v \in {"EUrd", "SfUI", "1pc4", "SNbo"}

\* A module-level DataFrame handed to a page function.
Frame(rows) == [tag |-> "frame", cols |-> AllCols, rows |-> rows]

PathsOf(v) ==
    CASE v \in {"EUrd", "SfUI", "1pc4", "SNbo", "9UCN"} -> {"/", "/insights"}
      [] v = "Ms8I" -> {"/", "/insights", "/upload", "/about"}
      [] v = "OtSo" -> {"/", "/add"}
      [] OTHER -> {}

\* The callback each variant registers on upload-data.contents.
UploadCallback(v) ==
    CASE v = "EUrd" -> "update_output"
      [] v = "SfUI" -> "upload_csv"
      [] v = "SNbo" -> "refresh_or_upload"
      [] v = "app" -> "parse_and_store_data"
      [] v = "9UCN" -> "update_output"
      [] v = "Ms8I" -> "upload_csv"
      [] OTHER -> ""

\* The callback registered on refresh-btn.n_clicks.
RefreshCallback(v) ==
    CASE v = "1pc4" -> "refresh_from_csv"
      [] v = "SNbo" -> "refresh_or_upload"
      [] OTHER -> ""

\* The callback registered on url.pathname.
RouteCallback(v) == IF v \in {"9UCN", "Ms8I"} THEN "display_page" ELSE "routing"

\* Page kinds whose widget tree holds the dcc.Upload / the refresh button.
HasUpload(v, kind) ==
    CASE v \in {"EUrd", "SNbo", "9UCN"} -> kind = "dashboard"
      [] v = "SfUI" -> kind \in {"dashboard", "nodata"}
      [] v = "app" -> TRUE
      [] v = "Ms8I" -> kind = "upload"
      [] OTHER -> FALSE

HasRefresh(v, kind) == v \in {"1pc4", "SNbo"} /\ kind = "dashboard"

\* The value app.layout gives the store.
InitialStore(v, dflt) ==
    CASE v \in {"EUrd", "1pc4", "SNbo"} -> to_dict(AllCols, dflt)
      [] v = "SfUI" -> to_dict({}, <<>>)
      [] v = "app" -> None
      [] OTHER -> Absent

(***************************************************************************)
(* Callback requests.  A request carries the inputs and states read when   *)
(* it was dispatched and the callbacks that led to it (preds).             *)
(***************************************************************************)
Req(cb) ==
    [cb |-> cb, file |-> NoFile, trigger |-> "", clicks |-> 0, day |-> NoDay,
     steps |-> NoSteps, cur |-> None, preds |-> {}]

\* A request whose own callback is among its predecessors has completed a
\* loop and is pruned; a newer request for a callback replaces the older.
Enqueue(q, r) ==
    IF r.cb \in r.preds THEN q
    ELSE Append(SelectSeq(q, LAMBDA e : e.cb # r.cb), r)

\* Requests raised by the outputs of request r.
After(q, r, new) == Enqueue(q, [new EXCEPT !.preds = r.preds \cup {r.cb}])

Without(q, i) == [j \in 1..(Len(q) - 1) |-> IF j < i THEN q[j] ELSE q[j + 1]]

\* Output of the first callback is an Input or State of the second.
Feeds ==
    {<<"update_output", "routing">>, <<"upload_csv", "routing">>,
     <<"refresh_from_csv", "routing">>, <<"refresh_or_upload", "routing">>,
     <<"parse_and_store_data", "update_output_content">>,
     <<"update_output", "update_steps_chart">>,
     <<"update_output", "update_calories_chart">>,
     <<"add_entry", "save_to_csv">>}

\* A request runs once no pending request feeds it.
Ready(i) == \A j \in DOMAIN pending : <<pending[j].cb, pending[i].cb>> \notin Feeds

NoPage == [kind |-> "blank", data |-> None, advice |-> "", charts |-> None, bars |-> None]

PageOf(r) == [kind |-> r.kind, data |-> r.data, advice |-> r.advice,
              charts |-> r.data, bars |-> r.data]

NoAdv == [day |-> "", bucket |-> ""]

\* df = pd.read_csv("data.csv") and the Day column made categorical, as every
\* variant with a module-level df does at import.
load_df(f) == NormalizeDay(f.rows)

\* data.csv the process can start with: a variant that takes no mean at
\* import also starts with the header alone.
StartFiles(v) ==
    IF v \in {"EUrd", "1pc4", "SNbo", "OtSo"} THEN DefaultFiles \cup {HeaderOnly}
    ELSE IF HasDf(v) THEN DefaultFiles
    ELSE {NoFile}

Init ==
    /\ variant \in Variants
    /\ csvfile \in StartFiles(variant)
    /\ df = IF HasDf(variant) THEN load_df(csvfile) ELSE <<>>
    /\ pathname = "/"
    /\ store = InitialStore(variant, df)
    /\ page = NoPage
    /\ status = ""
    /\ fault = "none"
    /\ pending = IF variant = "app" THEN <<Req("parse_and_store_data")>>
                 ELSE <<Req(RouteCallback(variant))>>
    /\ adv = NoAdv
    /\ userActed = FALSE

(***************************************************************************)
(* User events.                                                            *)
(***************************************************************************)
\* A click on a nav link: url.pathname changes and its callback is requested.
Navigate(p) ==
    /\ p \in PathsOf(variant)
    /\ pathname' = p
    /\ pending' = Enqueue(pending, Req(RouteCallback(variant)))
    /\ userActed' = TRUE
    /\ UNCHANGED <<variant, csvfile, df, store, page, status, fault, adv>>

\* A file dropped on the dcc.Upload of the page on screen.
Upload(f) ==
    /\ f \in Files
    /\ HasUpload(variant, page.kind)
    /\ pending' = Enqueue(pending, [Req(UploadCallback(variant)) EXCEPT
                                       !.file = f, !.trigger = "upload-data"])
    /\ userActed' = TRUE
    /\ UNCHANGED <<variant, csvfile, df, pathname, store, page, status, fault, adv>>

\* A click on the refresh button of the dashboard.
ClickRefresh ==
    /\ HasRefresh(variant, page.kind)
    /\ pending' = Enqueue(pending, [Req(RefreshCallback(variant)) EXCEPT
                                       !.clicks = 1, !.trigger = "refresh-btn"])
    /\ userActed' = TRUE
    /\ UNCHANGED <<variant, csvfile, df, pathname, store, page, status, fault, adv>>

\* data.csv is replaced on disk by something other than the app.
ExternalWrite(f) ==
    /\ variant \in {"1pc4", "SNbo"}
    /\ f \in DiskFiles
    /\ f # csvfile
    /\ csvfile' = f
    /\ UNCHANGED <<variant, df, pathname, store, page, status, fault, pending, adv, userActed>>

\* A click on Add Entry with the two inputs as typed; State("memory-data")
\* is read when the request is dispatched.
ClickAdd(day, steps) ==
    /\ variant = "OtSo"
    /\ page.kind = "add"
    /\ Len(store.rows) < Len(df) + MaxAdded
    /\ pending' = Enqueue(pending, [Req("add_entry") EXCEPT
                                       !.clicks = 1, !.day = day, !.steps = steps,
                                       !.cur = store])
    /\ userActed' = TRUE
    /\ UNCHANGED <<variant, csvfile, df, pathname, store, page, status, fault, adv>>

\* A click on Save to CSV.
ClickSave ==
    /\ variant = "OtSo"
    /\ page.kind = "add"
    /\ pending' = Enqueue(pending, [Req("save_to_csv") EXCEPT !.clicks = 1])
    /\ userActed' = TRUE
    /\ UNCHANGED <<variant, csvfile, df, pathname, store, page, status, fault, adv>>

(***************************************************************************)
(* Callbacks.  Each action runs one ready request to completion and        *)
(* requests the callbacks its outputs feed.                                *)
(***************************************************************************)
\* The URL callback that ignores the pathname: the dashboard for every URL.
RouteResultDashboardOnly(v, p, st, dflt) ==
    CASE v \in {"EUrd", "1pc4", "SNbo"} -> dashboard_page(st)
      [] v = "SfUI" -> dashboard_page_SfUI(st)
      [] v = "9UCN" -> Rendered("dashboard", None, "")
      [] OTHER -> dashboard_page(Frame(dflt))

\* What the URL callback of each variant returns for page-content.
RouteResult(v, p, st, dflt) ==
    CASE v \in {"EUrd", "1pc4", "SNbo"} ->
            IF p = "/insights" THEN insights_page(st) ELSE dashboard_page(st)
      [] v = "SfUI" ->
            IF p = "/insights" THEN insights_page_SfUI(st) ELSE dashboard_page_SfUI(st)
      [] v = "9UCN" ->
            IF p = "/insights" THEN Rendered("insights_empty", None, "")
            ELSE Rendered("dashboard", None, "")
      [] v = "Ms8I" ->
            IF p = "/insights" THEN Rendered("insights", Frame(dflt), "")
            ELSE IF p = "/upload" THEN Rendered("upload", None, "")
            ELSE IF p = "/about" THEN Rendered("about", None, "")
            ELSE dashboard_page(Frame(dflt))
      [] v = "OtSo" ->
            IF p = "/add" THEN Rendered("add", to_dict(AllCols, dflt), "")
            ELSE dashboard_page(Frame(dflt))

\* The store after page-content was replaced: a Store inside the page is
\* created anew with its initial data, or is gone.
StoreAfterRoute(v, kind, st, dflt) ==
    CASE TopStore(v) -> st
      [] v = "9UCN" -> IF kind = "dashboard" THEN None ELSE Absent
      [] v = "OtSo" -> IF kind = "add" THEN to_dict(AllCols, dflt) ELSE Absent
      [] OTHER -> st

\* The callbacks whose inputs sit in the new page: their initial calls.
InitialCalls(v, kind, dflt) ==
    IF HasUpload(v, kind) THEN <<Req(UploadCallback(v))>>
    ELSE IF HasRefresh(v, kind) THEN <<Req(RefreshCallback(v))>>
    ELSE IF v = "OtSo" /\ kind = "add"
         THEN <<[Req("add_entry") EXCEPT !.cur = to_dict(AllCols, dflt)]>>
    ELSE <<>>

\* routing(pathname, memory_data) / display_page(pathname).
RunRoute(i) ==
    /\ i \in DOMAIN pending
    /\ Ready(i)
    /\ pending[i].cb = RouteCallback(variant)
    /\ LET r == pending[i]
           res == RouteResult(variant, pathname, store, df)
           rest == Without(pending, i)
           calls == InitialCalls(variant, res.kind, df)
       IN  IF res.err # "none"
           THEN /\ fault' = res.err
                /\ pending' = rest
                /\ UNCHANGED <<store, page, status>>
           ELSE /\ fault' = "none"
                /\ page' = PageOf(res)
                /\ status' = ""
                /\ store' = StoreAfterRoute(variant, res.kind, store, df)
                /\ pending' = IF calls = <<>> THEN rest ELSE After(rest, r, calls[1])
    /\ UNCHANGED <<variant, csvfile, df, pathname, adv, userActed>>

\* What the callback on the upload widget / refresh button returns.
LoadResult(v, r, disk, dflt) ==
    CASE v = "EUrd" -> update_output_EUrd(r.file, dflt)
      [] v = "SfUI" -> upload_csv_SfUI(r.file)
      [] v = "1pc4" -> refresh_from_csv(r.clicks, disk, dflt)
      [] v = "SNbo" -> refresh_or_upload(r.trigger, r.clicks, r.file, disk, dflt)
      [] v = "app" -> parse_and_store_data(r.file)
      [] v = "9UCN" -> update_output_9UCN(r.file)
      [] v = "Ms8I" -> upload_csv_Ms8I(r.file)

\* The callbacks that take the written outputs as Input.
LoadTriggers(v, out) ==
    CASE TopStore(v) -> <<Req("routing")>>
      [] v = "app" -> <<Req("update_output_content")>>
      [] v = "9UCN" /\ out.status = "graphs" ->
            <<Req("update_steps_chart"), Req("update_calories_chart")>>
      [] OTHER -> <<>>

RECURSIVE AfterAll(_, _, _)
AfterAll(q, r, news) ==
    IF news = <<>> THEN q ELSE AfterAll(After(q, r, Head(news)), r, Tail(news))

\* update_output / upload_csv / refresh_from_csv / refresh_or_upload /
\* parse_and_store_data: the response is applied to the components that
\* are still in the layout.
RunLoad(i) ==
    /\ i \in DOMAIN pending
    /\ Ready(i)
    /\ pending[i].cb \in {UploadCallback(variant), RefreshCallback(variant)}
    /\ pending[i].cb # ""
    /\ LET r == pending[i]
           out == LoadResult(variant, r, csvfile, df)
           rest == Without(pending, i)
       IN  IF ~(HasUpload(variant, page.kind) \/ HasRefresh(variant, page.kind))
           THEN /\ pending' = rest
                /\ UNCHANGED <<store, page, status, fault>>
           ELSE /\ store' = IF out.store = Keep THEN store ELSE out.store
                /\ status' = out.status
                /\ page' = IF out.charts = Keep THEN page
                           ELSE [page EXCEPT !.charts = out.charts, !.bars = out.charts]
                /\ fault' = "none"
                /\ pending' = AfterAll(rest, r, LoadTriggers(variant, out))
    /\ UNCHANGED <<variant, csvfile, df, pathname, adv, userActed>>

\* update_output_content(jsonified_cleaned_data) of app.py: the prompt for
\* None, else sum, mean and df.loc[df['Steps'].idxmax()], which raises
\* ValueError on a frame without rows.
update_output_content(st) ==
    IF st.tag = "none" THEN Rendered("nodata", st, "")
    ELSE IF st.rows = <<>> THEN Raised("ValueError")
    ELSE Rendered("dashboard", st, "")

RunRender(i) ==
    /\ i \in DOMAIN pending
    /\ Ready(i)
    /\ pending[i].cb = "update_output_content"
    /\ LET res == update_output_content(store)
       IN  IF res.err # "none"
           THEN /\ fault' = res.err
                /\ UNCHANGED page
           ELSE /\ fault' = "none"
                /\ page' = PageOf(res)
    /\ pending' = Without(pending, i)
    /\ UNCHANGED <<variant, csvfile, df, pathname, store, status, adv, userActed>>

\* update_steps_chart / update_calories_chart of 9UCN: the figure of the
\* graph inside dashboard-content, drawn from the store.
RunChart(i) ==
    /\ i \in DOMAIN pending
    /\ Ready(i)
    /\ pending[i].cb \in {"update_steps_chart", "update_calories_chart"}
    /\ IF page.kind = "dashboard" /\ status = "graphs"
       THEN page' = IF pending[i].cb = "update_steps_chart"
                    THEN [page EXCEPT !.charts = store]
                    ELSE [page EXCEPT !.bars = store]
       ELSE UNCHANGED page
    /\ pending' = Without(pending, i)
    /\ UNCHANGED <<variant, csvfile, df, pathname, store, status, fault, adv, userActed>>

\* add_entry of OtSo: store, status text and live-chart of the add page.
RunAdd(i) ==
    /\ i \in DOMAIN pending
    /\ Ready(i)
    /\ pending[i].cb = "add_entry"
    /\ LET r == pending[i]
           out == add_entry(r.clicks, r.day, r.steps, r.cur)
       IN  IF page.kind # "add"
           THEN UNCHANGED <<store, status, page, fault>>
           ELSE IF make_charts(out.charts) # "none"
           THEN /\ fault' = make_charts(out.charts)
                /\ UNCHANGED <<store, status, page>>
           ELSE /\ store' = out.store
                /\ status' = out.status
                /\ page' = [page EXCEPT !.charts = out.charts]
                /\ fault' = "none"
    /\ pending' = Without(pending, i)
    /\ UNCHANGED <<variant, csvfile, df, pathname, adv, userActed>>

\* A save that writes the module-level df instead of the store.
save_startup_df(data) == [name |-> a_csv, kind |-> "csv", cols |-> AllCols, rows |-> df]

\* save_to_csv(n_clicks, data) of OtSo: pd.DataFrame(data).to_csv("data.csv").
save_to_csv(data) == [name |-> a_csv, kind |-> "csv", cols |-> data.cols, rows |-> data.rows]

\* What a failed write can leave of data.csv: the old file, or an unreadable
\* fragment of the new one.
AfterFailedWrite(old) == {old, BadFile(a_csv, "unreadable")}

\* The callback has no try: an OSError of to_csv leaves it by raising, and
\* save-status is not set.
RunSave(i) ==
    /\ i \in DOMAIN pending
    /\ Ready(i)
    /\ pending[i].cb = "save_to_csv"
    /\ IF page.kind = "add" /\ pending[i].clicks > 0
       THEN \/ /\ csvfile' = save_to_csv(store)
               /\ fault' = "none"
            \/ /\ csvfile' \in AfterFailedWrite(csvfile)
               /\ fault' = "OSError"
       ELSE UNCHANGED <<csvfile, fault>>
    /\ pending' = Without(pending, i)
    /\ UNCHANGED <<variant, df, pathname, store, page, status, adv, userActed>>

DayInputs == {NoDay, "Monday", "Funday"}

StepInputs == {NoSteps, 0, 1010}

Next ==
    \/ \E p \in {"/", "/insights", "/upload", "/about", "/add"} : Navigate(p)
    \/ \E f \in Files : Upload(f)
    \/ ClickRefresh
    \/ \E f \in DiskFiles : ExternalWrite(f)
    \/ \E d \in DayInputs, n \in StepInputs : ClickAdd(d, n)
    \/ ClickSave
    \/ \E i \in 1..3 : RunRoute(i)
    \/ \E i \in 1..3 : RunLoad(i)
    \/ \E i \in 1..3 : RunRender(i)
    \/ \E i \in 1..3 : RunChart(i)
    \/ \E i \in 1..3 : RunAdd(i)
    \/ \E i \in 1..3 : RunSave(i)

Spec == Init /\ [][Next]_vars

(***************************************************************************)
(* The advice callbacks of the single-dataset variants (9VqS, E7i6, WaWg,  *)
(* 4EJM, Dic7, Ms8I) and the insight card of RSsT: pure functions of the   *)
(* module-level df and the dropdown value.                                 *)
(***************************************************************************)
WeekOrder == <<"Monday", "Tuesday", "Wednesday", "Thursday", "Friday", "Saturday", "Sunday">>

\* Step counts data.csv is filled with: values around the 0.8 / 1.1 / 1.2
\* ratios of a mean of 10 and around differences of 500.
StepValues == {0, 8, 9, 11, 12, 13, 500, 1000, 1001}

RECURSIVE SeqsUpTo(_, _)
SeqsUpTo(S, n) ==
    IF n = 0 THEN {<<>>}
    ELSE LET shorter == SeqsUpTo(S, n - 1)
         IN  shorter \cup {Append(q, x) : q \in {t \in shorter : Len(t) = n - 1}, x \in S}

\* data.csv with one row per day, Monday first.
MkRows(steps) ==
    [i \in DOMAIN steps |->
        [Day |-> WeekOrder[i], Steps |-> steps[i], Calories |-> steps[i] \div 20]]

AdviceData == {MkRows(q) : q \in SeqsUpTo(StepValues, MaxRows) \ {<<>>}}

RECURSIVE SumSteps(_)
SumSteps(rows) == IF rows = <<>> THEN 0 ELSE Head(rows).Steps + SumSteps(Tail(rows))

\* The mean rounded to the nearest integer instead of truncated.
avg_steps_rounded(rows) == (2 * SumSteps(rows) + Len(rows)) \div (2 * Len(rows))

\* avg_steps = int(df["Steps"].mean())
avg_steps(rows) == SumSteps(rows) \div Len(rows)

\* df[df["Day"] == selected_day]
Matching(rows, day) == SelectSeq(rows, LAMBDA r : r.Day = day)

\* The ratio thresholds, in tenths: 0.8, and 1.1 (9VqS, E7i6, WaWg) or 1.2 (4EJM).
RatioLower == 8

RatioUpper == 11

RatioUpper4EJM == 12

\* The ratio policy with the thresholds taken inclusively.
ratio_advice_inclusive(steps, avg, upper) ==
    IF 10 * steps <= 8 * avg THEN "below"
    ELSE IF 10 * steps >= upper * avg THEN "above"
    ELSE "around"

\* if steps < avg * 0.8 ... elif steps > avg * upper ... else ...
ratio_advice(steps, avg, upper) ==
    IF 10 * steps < RatioLower * avg THEN "below"
    ELSE IF 10 * steps > upper * avg THEN "above"
    ELSE "around"

\* update_advice(selected_day) of 9VqS, E7i6, WaWg.
update_advice(rows, selected_day) ==
    LET data == Matching(rows, selected_day)
    IN  IF data = <<>> THEN "IndexError"
        ELSE ratio_advice(data[1].Steps, avg_steps(rows), RatioUpper)

\* update_advice(selected_day) of 4EJM.
update_advice_4EJM(rows, selected_day) ==
    IF selected_day = NoDay THEN ""
    ELSE LET row == Matching(rows, selected_day)
         IN  IF row = <<>> THEN "IndexError"
             ELSE ratio_advice(row[1].Steps, avg_steps(rows), RatioUpper4EJM)

\* The thresholds of the difference to the average.
AverageUp == 500

AverageDown == -500

\* The policy on the difference to the average with 500 and -500 taken
\* inclusively.
average_advice_inclusive(diff) ==
    IF diff <= -500 THEN "less"
    ELSE IF diff >= 500 THEN "beat"
    ELSE "steady"

\* if diff < -500 ... elif diff > 500 ... else ...
average_advice(diff) ==
    IF diff < AverageDown THEN "less"
    ELSE IF diff > AverageUp THEN "beat"
    ELSE "steady"

\* generate_advice(day) of Dic7: diff = steps - avg_steps.
generate_advice(rows, day) ==
    IF day = NoDay THEN ""
    ELSE LET row == Matching(rows, day)
         IN  IF row = <<>> THEN "IndexError"
             ELSE average_advice(row[1].Steps - avg_steps(rows))

\* advice_output(day) of Ms8I: avg = int(df["Steps"].mean()) in the callback.
advice_output(rows, day) ==
    IF day = NoDay THEN ""
    ELSE LET row == Matching(rows, day)
             avg == SumSteps(rows) \div Len(rows)
         IN  IF row = <<>> THEN "IndexError"
             ELSE average_advice(row[1].Steps - avg)

\* create_insight_card() of RSsT: yesterday = df.iloc[-1], previous_day =
\* df.iloc[-2], the colour of the message.
create_insight_card(rows) ==
    DeltaAdvice(rows[Len(rows)].Steps - rows[Len(rows) - 1].Steps)

AdviceVariants == {"9VqS", "4EJM", "Dic7", "Ms8I", "RSsT"}

\* The module imports: data.csv is read; RSsT takes df.iloc[-2] at import.
InitAdvice ==
    /\ variant \in AdviceVariants
    /\ df \in {d \in AdviceData : variant = "RSsT" => Len(d) >= 2}
    /\ csvfile = CsvFile(a_csv, AllCols, df)
    /\ pathname = "/"
    /\ store = Absent
    /\ page = NoPage
    /\ status = ""
    /\ fault = "none"
    /\ pending = <<>>
    /\ adv = NoAdv
    /\ userActed = FALSE

\* The values the day dropdown offers: the Day column.
DayOptions(rows) == {rows[i].Day : i \in DOMAIN rows}

SelectDay_9VqS(d) ==
    /\ variant = "9VqS"
    /\ d \in DayOptions(df)
    /\ adv' = [day |-> d, bucket |-> update_advice(df, d)]
    /\ userActed' = TRUE
    /\ UNCHANGED routerVars

SelectDay_4EJM(d) ==
    /\ variant = "4EJM"
    /\ d \in DayOptions(df)
    /\ adv' = [day |-> d, bucket |-> update_advice_4EJM(df, d)]
    /\ userActed' = TRUE
    /\ UNCHANGED routerVars

SelectDay_Dic7(d) ==
    /\ variant = "Dic7"
    /\ d \in DayOptions(df)
    /\ adv' = [day |-> d, bucket |-> generate_advice(df, d)]
    /\ userActed' = TRUE
    /\ UNCHANGED routerVars

SelectDay_Ms8I(d) ==
    /\ variant = "Ms8I"
    /\ d \in DayOptions(df)
    /\ adv' = [day |-> d, bucket |-> advice_output(df, d)]
    /\ userActed' = TRUE
    /\ UNCHANGED routerVars

\* RSsT: the insights page shows the card computed from the last two rows.
OpenInsights_RSsT ==
    /\ variant = "RSsT"
    /\ pathname' = "/insights"
    /\ adv' = [day |-> df[Len(df)].Day, bucket |-> create_insight_card(df)]
    /\ userActed' = TRUE
    /\ UNCHANGED <<variant, csvfile, df, store, page, status, fault, pending>>

NextAdvice ==
    \/ \E d \in Weekdays : SelectDay_9VqS(d)
    \/ \E d \in Weekdays : SelectDay_4EJM(d)
    \/ \E d \in Weekdays : SelectDay_Dic7(d)
    \/ \E d \in Weekdays : SelectDay_Ms8I(d)
    \/ OpenInsights_RSsT

SpecAdvice == InitAdvice /\ [][NextAdvice]_vars

(***************************************************************************)
(* Properties of the router and the store (specification Spec).            *)
(***************************************************************************)
\* The upload / refresh response is applied: its widget is still on screen.
Applied == HasUpload(variant, page.kind) \/ HasRefresh(variant, page.kind)

\* The file a load request reads: the payload, or data.csv on a refresh click.
SourceOf(r) ==
    IF r.trigger = "upload-data" THEN r.file
    ELSE IF r.trigger = "refresh-btn" THEN csvfile
    ELSE NoFile

\* A file no loader can take: it does not parse, or a required column is missing.
FailingFile(f) == f # NoFile /\ (f.kind # "csv" \/ ~(AllCols \subseteq f.cols))

\* The handler reported success for the request.
Succeeded(r) ==
    LET out == LoadResult(variant, r, csvfile, df)
    IN  SourceOf(r) # NoFile /\ (out.status \in {"loaded", "graphs", "table"} \/ out.store.tag = "json")

\* The store holds a dataset that an upload or refresh put there.
HoldsLoaded ==
    /\ store.tag \in {"records", "json"}
    /\ store.rows # <<>>
    /\ store # InitialStore(variant, df)

\* C1: once a dataset A was loaded, a failing upload or refresh (a file that
\* does not parse, is undecodable or unreadable, or lacks a column) leaves
\* the store equal to A and sets an error message.
C1_FailedLoadRetainsData ==
    [][\A i \in 1..3 :
          (RunLoad(i) /\ Applied /\ HoldsLoaded /\ FailingFile(SourceOf(pending[i])))
              => (store' = store /\ status' \in {"error", "missing"})]_vars

\* C2: rows of a CSV whose header lacks Day, Steps or Calories never become
\* the shared dataset: a stored dataset with rows has all three columns.
C2_MissingColumnsNeverStored ==
    (store.tag \in {"records", "json"} /\ store.rows # <<>>) => AllCols \subseteq store.cols

\* C3: when the callback chain started by an upload or refresh ends with the
\* re-render of the page, nothing has raised and the page on screen is
\* rendered from the dataset the store now holds.
C3_MutationRerendersFromStore ==
    [][\A i \in 1..3 :
          (RunRoute(i) /\ pending[i].preds # {} /\ pending' = <<>>)
              => (fault' = "none" /\ page'.data = store')]_vars

\* C4: a page rendered on a navigation event shows the rows of the shared
\* dataset held at that moment, rows added or uploaded since start included.
C4_NavigationRendersCurrentData ==
    [][\A i \in 1..3 :
          (RunRoute(i) /\ pending[i].preds = {} /\ store.tag = "records" /\ fault' = "none")
              => page'.data.rows = store.rows]_vars

\* C5: immediately after a successful upload or refresh the store holds
\* exactly the records of the loaded file in the file's row order.
C5_LoadReplacesWholesale ==
    [][\A i \in 1..3 :
          (RunLoad(i) /\ Applied /\ Succeeded(pending[i]))
              => (store'.tag \in {"records", "json"} /\ store'.rows = SourceOf(pending[i]).rows)]_vars

\* C6: rendering never fails with an IndexError, whatever the size of the
\* shared dataset.
C6_NoIndexError == fault # "IndexError"

\* C7: rendering a page from a dataset without rows (a header-only CSV, or
\* nothing loaded yet) never raises.
C7_EmptyDataNeverRaises ==
    [][\A i \in 1..3 :
          ((RunRoute(i) \/ RunRender(i))
           /\ store.tag \in {"records", "json", "none"} /\ store.rows = <<>>)
              => fault' = "none"]_vars

(***************************************************************************)
(* Properties of the advice callbacks (specification SpecAdvice).          *)
(***************************************************************************)
\* Steps of the day the dropdown selects.
SelectedSteps == Matching(df, adv.day)[1].Steps

\* C8: with stepsDiff the steps of the last row minus those of the row
\* before, the advice is success above 500, danger below -500, and the
\* neutral message otherwise, 500 and -500 included.
C8_DeltaPolicy ==
    (variant = "RSsT" /\ pathname = "/insights") =>
        LET stepsDiff == df[Len(df)].Steps - df[Len(df) - 1].Steps
        IN  adv.bucket = IF stepsDiff > 500 THEN "success"
                         ELSE IF stepsDiff < -500 THEN "danger"
                         ELSE "warning"

\* The insights card is shown for a difference of exactly 500 or -500.
C8_Witness ==
    /\ variant = "RSsT"
    /\ pathname = "/insights"
    /\ df[Len(df)].Steps - df[Len(df) - 1].Steps \in {500, -500}
    /\ adv.bucket = "warning"

\* The upper ratio bound of the variant, in tenths.
UpperTenths == IF variant = "4EJM" THEN 12 ELSE 11

BucketOfMean(s, num, den) ==
    IF variant \in {"9VqS", "4EJM"}
    THEN IF 10 * den * s < 8 * num THEN "below"
         ELSE IF 10 * den * s > UpperTenths * num THEN "above"
         ELSE "around"
    ELSE IF den * s - num < -500 * den THEN "less"
         ELSE IF den * s - num > 500 * den THEN "beat"
         ELSE "steady"

StatPairs == {<<8, 3>>, <<13, 4>>, <<13, 9>>, <<500, 25>>, <<8, 0>>}

StatRows(pairs) ==
    [i \in DOMAIN pairs |->
        [Day |-> WeekOrder[i], Steps |-> pairs[i][1], Calories |-> pairs[i][2]]]

\* The fallback frame of XneI when data.csv is not found.
XneI_Steps == <<8500, 9200, 7800, 10500, 12300, 15200, 9500>>

XneI_Calories == <<350, 380, 320, 420, 500, 610, 390>>

XneI_df ==
    [i \in 1..7 |-> [Day |-> WeekOrder[i], Steps |-> XneI_Steps[i], Calories |-> XneI_Calories[i]]]

StatData == {StatRows(q) : q \in SeqsUpTo(StatPairs, MaxRows)} \cup {XneI_df}

RECURSIVE SumCol(_, _)
SumCol(rows, col) ==
    IF rows = <<>> THEN 0
    ELSE (IF col = "Steps" THEN Head(rows).Steps ELSE Head(rows).Calories)
         + SumCol(Tail(rows), col)

\* The column mean that leaves out the first row.
mean_skipping_first(rows, col) == [num |-> SumCol(Tail(rows), col), den |-> Len(rows)]

\* Series.mean(): the quotient sum / count, kept as a fraction; count 0
\* gives nan.
mean(rows, col) == [num |-> SumCol(rows, col), den |-> Len(rows)]

\* The float rounded up to the next integer.
int_up(q) == (q.num + q.den - 1) \div q.den

\* int(x) of a non-negative float: the integer part.
int(q) == q.num \div q.den

\* f"{x:,.0f}": the nearest integer, a tie going to the even one.
format_0f(q) ==
    LET lo == q.num \div q.den
        twice == 2 * (q.num % q.den)
    IN  IF twice < q.den THEN lo
        ELSE IF twice > q.den THEN lo + 1
        ELSE IF lo % 2 = 0 THEN lo ELSE lo + 1

\* The last row holding the largest Steps.
idxmax_last(rows) ==
    CHOOSE i \in DOMAIN rows :
        /\ \A j \in DOMAIN rows : rows[j].Steps <= rows[i].Steps
        /\ \A j \in DOMAIN rows : j > i => rows[j].Steps < rows[i].Steps

\* Series.idxmax(): the label of the first occurrence of the maximum.
idxmax(rows) ==
    CHOOSE i \in DOMAIN rows :
        /\ \A j \in DOMAIN rows : rows[j].Steps <= rows[i].Steps
        /\ \A j \in DOMAIN rows : j < i => rows[j].Steps < rows[i].Steps

\* Series.idxmin(): the label of the first occurrence of the minimum.
idxmin(rows) ==
    CHOOSE i \in DOMAIN rows :
        /\ \A j \in DOMAIN rows : rows[j].Steps >= rows[i].Steps
        /\ \A j \in DOMAIN rows : j < i => rows[j].Steps > rows[i].Steps

NoMean == [num |-> 0, den |-> 0]

\* What a page shows of the statistics; err names the exception raised.
Shown(kind, err, ms, mc, shown_steps, shown_cal, best, worst) ==
    [kind |-> kind, err |-> err, mean_steps |-> ms, mean_cal |-> mc,
     avg_steps |-> shown_steps, avg_cal |-> shown_cal, best |-> best, worst |-> worst]

NoStats == Shown("blank", "none", NoMean, NoMean, 0, 0, 0, 0)

\* dashboard_page(data) of 1pc4: avg_steps = int(data["Steps"].mean()),
\* avg_cal = int(data["Calories"].mean()); int(nan) raises ValueError.
dashboard_stats(rows) ==
    IF rows = <<>> THEN Shown("dashboard", "ValueError", NoMean, NoMean, 0, 0, 0, 0)
    ELSE Shown("dashboard", "none", mean(rows, "Steps"), mean(rows, "Calories"),
               int(mean(rows, "Steps")), int(mean(rows, "Calories")), 0, 0)

\* update_output_content of app.py: avg_steps = df['Steps'].mean() shown
\* with :,.0f, best_day_data = df.loc[df['Steps'].idxmax()].
content_stats(rows) ==
    IF rows = <<>> THEN Shown("dashboard", "ValueError", NoMean, NoMean, 0, 0, 0, 0)
    ELSE Shown("dashboard", "none", mean(rows, "Steps"), NoMean,
               format_0f(mean(rows, "Steps")), 0, idxmax(rows), 0)

\* update_insights of IF3H: the message below two rows, else the two
\* means, idxmax and idxmin.
insights_stats(rows) ==
    IF Len(rows) < 2 THEN Shown("insufficient", "none", NoMean, NoMean, 0, 0, 0, 0)
    ELSE Shown("insights", "none", mean(rows, "Steps"), mean(rows, "Calories"),
               format_0f(mean(rows, "Steps")), format_0f(mean(rows, "Calories")),
               idxmax(rows), idxmin(rows))

StatsVariants == {"1pc4", "app", "IF3H"}

\* The dataset sits in the store of the variant; nothing is rendered yet.
InitStats ==
    /\ variant \in StatsVariants
    /\ df \in StatData
    /\ csvfile = CsvFile(a_csv, AllCols, df)
    /\ pathname = "/"
    /\ store = IF variant = "1pc4" THEN to_dict(AllCols, df) ELSE to_json(AllCols, df)
    /\ page = NoStats
    /\ status = ""
    /\ fault = "none"
    /\ pending = <<>>
    /\ adv = NoAdv
    /\ userActed = FALSE

ShowDashboard_1pc4 ==
    /\ variant = "1pc4"
    /\ page' = dashboard_stats(store.rows)
    /\ fault' = page'.err
    /\ UNCHANGED <<variant, csvfile, df, pathname, store, status, pending, adv, userActed>>

ShowContent_app ==
    /\ variant = "app"
    /\ page' = content_stats(store.rows)
    /\ fault' = page'.err
    /\ UNCHANGED <<variant, csvfile, df, pathname, store, status, pending, adv, userActed>>

ShowInsights_IF3H ==
    /\ variant = "IF3H"
    /\ pathname' = "/insights"
    /\ page' = insights_stats(store.rows)
    /\ fault' = page'.err
    /\ UNCHANGED <<variant, csvfile, df, store, status, pending, adv, userActed>>

NextStats ==
    \/ ShowDashboard_1pc4
    \/ ShowContent_app
    \/ ShowInsights_IF3H

SpecStats == InitStats /\ [][NextStats]_vars

\* C11: for every dataset with at least one row the statistics are computed
\* without raising, the two means are the column sums divided by the row
\* count, and the integer a dashboard shows is the whole part of that mean.
C11_MeanIsArithmeticMean ==
    (page.kind \in {"dashboard", "insights"} /\ store.rows # <<>>) =>
        /\ fault = "none"
        /\ page.mean_steps.den > 0
        /\ page.mean_steps.num * Len(store.rows) = SumCol(store.rows, "Steps") * page.mean_steps.den
        /\ variant # "app" =>
              /\ page.mean_cal.den > 0
              /\ page.mean_cal.num * Len(store.rows)
                    = SumCol(store.rows, "Calories") * page.mean_cal.den
        /\ variant = "1pc4" =>
              /\ page.avg_steps * Len(store.rows) <= SumCol(store.rows, "Steps")
              /\ SumCol(store.rows, "Steps") < (page.avg_steps + 1) * Len(store.rows)

\* The dashboard showed the statistics of a dataset whose mean is no integer.
C11_Witness ==
    /\ variant = "1pc4"
    /\ page.kind = "dashboard"
    /\ fault = "none"
    /\ SumCol(store.rows, "Steps") % Len(store.rows) # 0

\* C12 as stated: for the seven canonical weekdays with steps 8500, 9200,
\* 7800, 10500, 12300, 15200, 9500 the mean steps, rounded, is 10,400.
C12_MeanIs10400 ==
    (df = XneI_df /\ page.kind = "dashboard") => page.avg_steps = 10400

\* C12 amended: for that dataset the mean steps is 73000 / 7; a dashboard
\* that truncates shows 10,428, one that rounds shows 10,429, and it is
\* 10,400 only to the nearest hundred.
C12_MeanIs10428 ==
    (df = XneI_df /\ page.kind \in {"dashboard", "insights"}) =>
        /\ page.mean_steps = [num |-> 73000, den |-> 7]
        /\ page.avg_steps = IF variant = "1pc4" THEN 10428 ELSE 10429
        /\ ((page.avg_steps + 50) \div 100) * 100 = 10400

\* The truncating dashboard showed the mean of the canonical week.
C12_Witness ==
    /\ df = XneI_df
    /\ variant = "1pc4"
    /\ page.kind = "dashboard"
    /\ fault = "none"

\* C13: the best day is the first row in dataset order holding the largest
\* steps and the worst day the first row holding the smallest: no row
\* before it has the same steps, and no row at all has more (less).
C13_BestWorstFirstOccurrence ==
    /\ page.best # 0 =>
          /\ \A j \in DOMAIN store.rows : store.rows[j].Steps <= store.rows[page.best].Steps
          /\ \A j \in 1..(page.best - 1) : store.rows[j].Steps # store.rows[page.best].Steps
    /\ page.worst # 0 =>
          /\ \A j \in DOMAIN store.rows : store.rows[j].Steps >= store.rows[page.worst].Steps
          /\ \A j \in 1..(page.worst - 1) : store.rows[j].Steps # store.rows[page.worst].Steps

\* The best day was taken from a dataset in which a later row ties with it.
C13_Witness ==
    /\ page.best # 0
    /\ \E j \in DOMAIN store.rows :
          j > page.best /\ store.rows[j].Steps = store.rows[page.best].Steps

(***************************************************************************)
(* Further properties of the router and the store (specification Spec).    *)
(***************************************************************************)
\* C14: the dataset saved to data.csv and loaded back, as the process does
\* at its next start, is the sequence of records that was saved, day
\* strings that are no weekday names included.
C14_SaveLoadRoundTrip ==
    [][\A i \in 1..3 :
          (RunSave(i) /\ fault' = "none" /\ csvfile' # csvfile)
              => load_df(csvfile') = store.rows]_vars

\* The name ends in .csv.
EndsCsv(name) ==
    /\ Len(name) >= 4
    /\ SubSeq(name, Len(name) - 3, Len(name)) = <<".", "c", "s", "v">>

\* C15: an uploaded payload whose name does not end in .csv, or whose
\* header lacks a required column, gets an error text and does not become
\* the shared dataset.
C15_UploadRejectsNonCsv ==
    [][\A i \in 1..3 :
          (RunLoad(i) /\ Applied /\ pending[i].trigger = "upload-data"
           /\ pending[i].file # NoFile
           /\ (~EndsCsv(pending[i].file.name) \/ ~(AllCols \subseteq pending[i].file.cols)))
              => (status' \in {"error", "missing", "notcsv"} /\ ~Succeeded(pending[i]))]_vars

\* C16: every record of the shared dataset has a day that is one of the
\* seven weekday names, non-negative steps and non-negative calories.
C16_RecordsWellFormed ==
    store.tag \in {"records", "json"} =>
        \A i \in DOMAIN store.rows :
            /\ store.rows[i].Day \in Weekdays
            /\ store.rows[i].Steps >= 0
            /\ store.rows[i].Calories >= 0

\* C17: a loaded record keeps the day string of the file, also when it is
\* no weekday name.
C17_DayStringKept ==
    [][\A i \in 1..3 :
          (RunLoad(i) /\ Applied /\ Succeeded(pending[i]) /\ store' # store)
              => \A k \in DOMAIN store'.rows :
                    k \in DOMAIN SourceOf(pending[i]).rows
                    /\ store'.rows[k].Day = SourceOf(pending[i]).rows[k].Day]_vars

\* The request submits an entry that add_entry appends.
ValidAdd(r) == r.cb = "add_entry" /\ r.clicks > 0 /\ r.day # NoDay /\ r.steps \notin {NoSteps, 0}

\* C18: a submission of the add form made while another one is in flight
\* does not displace it: the earlier request stays to be applied.
C18_NoSubmissionLost ==
    [][\A i \in 1..3 :
          (i \in DOMAIN pending /\ ValidAdd(pending[i])
           /\ \E d \in DayInputs, n \in StepInputs : ClickAdd(d, n))
              => \E j \in DOMAIN pending' : pending'[j] = pending[i]]_vars

\* Variants with an upload widget or a refresh button.
LoaderVariants == {"EUrd", "SfUI", "1pc4", "SNbo", "app", "9UCN", "Ms8I"}

\* Some page that renders from the present state carries the loader widget.
WidgetReachable ==
    \E p \in PathsOf(variant) :
        LET r == RouteResult(variant, p, store, df)
        IN  r.err = "none" /\ (HasUpload(variant, r.kind) \/ HasRefresh(variant, r.kind))

\* C19: no state is stuck: once the callbacks have run, the upload widget
\* or refresh button is on screen or on a page that renders, so that a
\* valid upload or refresh can still be made.
C19_NeverStuck ==
    (pending = <<>> /\ variant \in LoaderVariants) => (Applied \/ WidgetReachable)

\* C20: the save callback never raises: a failed write ends as status text.
C20_SaveNeverRaises ==
    [][\A i \in 1..3 : RunSave(i) => fault' # "OSError"]_vars

\* The rows of the shared dataset: those of the store where the layout has
\* one, else those of the module-level df.
SharedRows ==
    IF store.tag \in {"records", "json"} THEN store.rows
    ELSE IF HasDf(variant) THEN df
    ELSE <<>>

\* The dataset of the default source: data.csv as read at import; nothing in
\* a variant that reads no file at start.
DefaultRows == IF HasDf(variant) THEN df ELSE <<>>

\* C22: before any user event, once the initial callbacks have run, the
\* page on screen is the Dashboard (its upload prompt where nothing is
\* loaded) and the shared dataset is the one read from the default source.
C22_StartsOnDashboard ==
    (~userActed /\ pending = <<>>) =>
        /\ pathname = "/"
        /\ page.kind \in {"dashboard", "nodata"}
        /\ SharedRows = DefaultRows

\* The table the URL callback hands to make_charts: the frame built from
\* the records of the store, or the module-level df.
ChartInput == IF TopStore(variant) THEN store ELSE Frame(df)

\* The URL callback of the variant builds the two charts for the present
\* pathname (SfUI shows its prompt instead when the dataset has no rows).
BuildsCharts ==
    /\ variant \in {"EUrd", "1pc4", "SNbo", "Ms8I", "OtSo"}
    /\ pathname \notin {"/insights", "/upload", "/about", "/add"}

\* C23: the chart builder, handed a dataset without rows, returns its two
\* chart specs and does not raise.
C23_ChartsTolerateEmpty ==
    [][\A i \in 1..3 :
          (RunRoute(i) /\ BuildsCharts /\ ChartInput.rows = <<>>)
              => make_charts(ChartInput) = "none"]_vars

\* A request of a chain that a navigation started: the URL callback itself,
\* or the initial call of a callback whose inputs the new page brought.
FromNavigation(r) ==
    /\ r.trigger = ""
    /\ r.clicks = 0
    /\ r.preds \subseteq {RouteCallback(variant)}

\* C24: navigation only reads the shared dataset: when the store holds a
\* dataset, the shared dataset has the same rows after every callback a
\* navigation event sets off, the re-creation of the page's widgets and
\* store included.
C24_NavigationKeepsData ==
    [][\A i \in 1..3 :
          (/\ RunRoute(i) \/ RunLoad(i) \/ RunAdd(i)
           /\ userActed
           /\ FromNavigation(pending[i])
           /\ store.tag \in {"records", "json"})
              => SharedRows' = SharedRows]_vars

\* C26: add_entry, called with a click, a non-empty day and steps of 0 or
\* more, returns the dataset it was handed with exactly one record
\* appended: the day, the steps and floor(steps * 0.05) calories; the
\* records before it are unchanged and in place.
C26_AddAppendsOneRecord ==
    [][\A i \in 1..3 :
          (/\ RunAdd(i)
           /\ page.kind = "add"
           /\ pending[i].clicks > 0
           /\ pending[i].day # NoDay
           /\ pending[i].steps >= 0)
              => store'.rows = Append(pending[i].cur.rows,
                                      [Day |-> pending[i].day, Steps |-> pending[i].steps,
                                       Calories |-> pending[i].steps \div 20])]_vars

\* The add request lacks a field, or is the call with zero clicks.
IncompleteAdd(r) == r.clicks = 0 \/ r.day = NoDay \/ r.steps = NoSteps

\* C27: add_entry called with a field missing or with zero clicks returns
\* the dataset it was handed, so the store is unchanged, and for a missing
\* field it returns the fill-in-the-fields warning.
C27_IncompleteAddKeepsData ==
    [][\A i \in 1..3 :
          (RunAdd(i) /\ page.kind = "add" /\ IncompleteAdd(pending[i]))
              => /\ fault' = "none"
                 /\ store' = store
                 /\ pending[i].clicks > 0 => status' = "warn"]_vars

NoPathname == "None"

\* The pathnames tried: the routes of all variants, the route with a
\* trailing slash, a URL no variant defines, and no pathname.
Pathnames == {"/", "/insights", "/about", "/upload", "/add", "/insights/", "/other", NoPathname}

RouteVariants == {"EUrd", "SfUI", "1pc4", "SNbo", "9UCN", "Ms8I", "OtSo"}

InitRoute ==
    /\ variant \in RouteVariants
    /\ csvfile \in StartFiles(variant)
    /\ df = IF HasDf(variant) THEN load_df(csvfile) ELSE <<>>
    /\ pathname = NoPathname
    /\ store = InitialStore(variant, df)
    /\ page = NoPage
    /\ status = ""
    /\ fault = "none"
    /\ pending = <<>>
    /\ adv = NoAdv
    /\ userActed = FALSE

\* The location changes to p and the URL callback answers.
OpenPath(p) ==
    /\ pathname' = p
    /\ LET res == RouteResult(variant, p, store, df)
       IN  IF res.err # "none"
           THEN /\ fault' = res.err
                /\ UNCHANGED <<store, page>>
           ELSE /\ fault' = "none"
                /\ page' = PageOf(res)
                /\ store' = StoreAfterRoute(variant, res.kind, store, df)
    /\ userActed' = TRUE
    /\ UNCHANGED <<variant, csvfile, df, status, pending, adv>>

NextRoute == \E p \in Pathnames : OpenPath(p)

SpecRoute == InitRoute /\ [][NextRoute]_vars

\* The page kinds that are the page of a route.
KindsOf(p) ==
    CASE p = "/insights" -> {"insights", "nodata_insights", "insights_empty"}
      [] p = "/about" -> {"about"}
      [] p = "/upload" -> {"upload"}
      [] p = "/add" -> {"add"}
      [] OTHER -> {"dashboard", "nodata"}

\* C25: the page the URL callback returns is determined by the pathname:
\* /insights, /about, /upload and /add give their own page in the variants
\* that define them, and every other pathname, / and the absent one
\* included, gives the Dashboard.
C25_DispatchByPathname ==
    (userActed /\ fault = "none") =>
        page.kind \in (IF pathname \in PathsOf(variant) THEN KindsOf(pathname) ELSE KindsOf("/"))

\* A variant without an upload page answered /upload with its Dashboard.
C25_Witness ==
    /\ userActed
    /\ fault = "none"
    /\ variant = "OtSo"
    /\ pathname = "/upload"
    /\ page.kind = "dashboard"

(***************************************************************************)
(* Further properties of the advice callbacks (specification SpecAdvice).  *)
(***************************************************************************)
\* Variants whose policy compares steps with a multiple of the mean.
RatioVariants == {"9VqS", "4EJM"}

\* The input the policy of the variant classifies: the steps of the last
\* row minus those of the row before (RSsT), the steps of the selected day
\* minus the truncated mean (Dic7, Ms8I), or the steps of the selected day
\* next to the truncated mean (9VqS, 4EJM).
AdviceInput ==
    IF variant = "RSsT" THEN <<df[Len(df)].Steps - df[Len(df) - 1].Steps, 1>>
    ELSE IF variant \in RatioVariants THEN <<SelectedSteps, SumSteps(df) \div Len(df)>>
    ELSE <<SelectedSteps - (SumSteps(df) \div Len(df)), 1>>

\* The side of the thresholds a message stands for.
SideOf(bucket) ==
    IF bucket \in {"success", "beat", "above"} THEN "high"
    ELSE IF bucket \in {"danger", "less", "below"} THEN "low"
    ELSE IF bucket \in {"warning", "steady", "around"} THEN "neutral"
    ELSE "none"

\* The input lies above the upper threshold / below the lower one.
IsHigh(x) == IF variant \in RatioVariants THEN 10 * x[1] > UpperTenths * x[2] ELSE x[1] > 500

IsLow(x) == IF variant \in RatioVariants THEN 10 * x[1] < 8 * x[2] ELSE x[1] < -500

\* The input sits exactly on one of the thresholds: a difference of
\* 500 or -500, a ratio of 0.8.
OnBoundary(x) ==
    IF variant \in RatioVariants THEN 10 * x[1] = 8 * x[2] /\ x[2] > 0
    ELSE x[1] \in {500, -500}

\* C21: advice selection is a function of its delta / ratio input alone:
\* every input is given exactly one of the three buckets, the one whose
\* condition it meets, the conditions never hold together, an input of
\* exactly 500, -500 or ratio 0.8 gets the neutral bucket in every variant,
\* and two selections with the same input give the same bucket.
C21_SelectionIsFunction ==
    /\ [](adv.bucket # "" =>
            /\ SideOf(adv.bucket) \in {"high", "low", "neutral"}
            /\ ~(IsHigh(AdviceInput) /\ IsLow(AdviceInput))
            /\ SideOf(adv.bucket) = "high" <=> IsHigh(AdviceInput)
            /\ SideOf(adv.bucket) = "low" <=> IsLow(AdviceInput)
            /\ OnBoundary(AdviceInput) => SideOf(adv.bucket) = "neutral")
    /\ [][(adv.bucket # "" /\ adv'.bucket # "" /\ AdviceInput' = AdviceInput)
              => adv'.bucket = adv.bucket]_vars

\* A day whose steps are exactly 500 above the average got the neutral advice.
C21_Witness ==
    /\ variant \in {"Dic7", "Ms8I"}
    /\ adv.bucket = "steady"
    /\ AdviceInput[1] = 500

(***************************************************************************)
(* The recommendation of the upload variants IF3H and dKZY (specification  *)
(* SpecPercent): update_insights, a pure function of the stored upload.    *)
(***************************************************************************)
\* Step counts the upload is filled with: a previous day of 0, and last
\* days exactly 5 percent, and a little more, above and below the previous.
PercentSteps == {0, 20, 21, 100, 94, 95, 105, 106}

PercentData == {MkRows(q) : q \in SeqsUpTo(PercentSteps, MaxDays)}

\* The thresholds of the percent policy.
PercentUp == 5

PercentDown == -5

\* (steps_diff / previous_day['Steps']) * 100 if previous_day['Steps'] != 0
\* else 0, kept as a fraction.
steps_diff_percent(last, previous) ==
    IF previous # 0 THEN [num |-> 100 * (last - previous), den |-> previous]
    ELSE [num |-> 0, den |-> 1]

\* The same of dKZY: ... if previous_day['Steps'] > 0 else 0.
steps_diff_percent_dKZY(last, previous) ==
    IF previous > 0 THEN [num |-> 100 * (last - previous), den |-> previous]
    ELSE [num |-> 0, den |-> 1]

\* The percent policy with 5 and -5 taken inclusively.
recommendation_color_inclusive(p) ==
    IF p.num >= 5 * p.den THEN "success"
    ELSE IF p.num <= -5 * p.den THEN "warning"
    ELSE "info"

\* if steps_diff_percent > 5 ... elif steps_diff_percent < -5 ... else ...
\* for a fraction with a positive denominator.
recommendation_color(p) ==
    IF p.num > PercentUp * p.den THEN "success"
    ELSE IF p.num < PercentDown * p.den THEN "warning"
    ELSE "info"

\* update_insights of IF3H: the prompt for None, the message below two
\* rows, else the recommendation from the last two rows.
update_insights_IF3H(st) ==
    IF st.tag = "none" THEN "prompt"
    ELSE IF Len(st.rows) < 2 THEN "insufficient"
    ELSE recommendation_color(steps_diff_percent(st.rows[Len(st.rows)].Steps,
                                                 st.rows[Len(st.rows) - 1].Steps))

\* update_insights of dKZY: the same with at least three rows.
update_insights_dKZY(st) ==
    IF st.tag = "none" THEN "prompt"
    ELSE IF Len(st.rows) < 3 THEN "insufficient"
    ELSE recommendation_color(steps_diff_percent_dKZY(st.rows[Len(st.rows)].Steps,
                                                      st.rows[Len(st.rows) - 1].Steps))

PercentVariants == {"IF3H", "dKZY"}

\* An upload sits in stored-data, or nothing was uploaded yet.
InitPercent ==
    /\ variant \in PercentVariants
    /\ df \in PercentData
    /\ csvfile = NoFile
    /\ pathname = "/"
    /\ store \in {to_json(AllCols, df)} \cup (IF df = <<>> THEN {None} ELSE {})
    /\ page = NoPage
    /\ status = ""
    /\ fault = "none"
    /\ pending = <<>>
    /\ adv = NoAdv
    /\ userActed = FALSE

OpenInsights_IF3H ==
    /\ variant = "IF3H"
    /\ pathname' = "/insights"
    /\ adv' = [day |-> "", bucket |-> update_insights_IF3H(store)]
    /\ userActed' = TRUE
    /\ UNCHANGED <<variant, csvfile, df, store, page, status, fault, pending>>

OpenInsights_dKZY ==
    /\ variant = "dKZY"
    /\ pathname' = "/insights"
    /\ adv' = [day |-> "", bucket |-> update_insights_dKZY(store)]
    /\ userActed' = TRUE
    /\ UNCHANGED <<variant, csvfile, df, store, page, status, fault, pending>>

NextPercent ==
    \/ OpenInsights_IF3H
    \/ OpenInsights_dKZY

SpecPercent == InitPercent /\ [][NextPercent]_vars

\* C29: with p the steps of the last row minus those of the row before, as
\* a percentage of the latter, the insight is success when p > 5, warning
\* when p < -5 and info otherwise, exactly 5 and -5 included; when the row
\* before has 0 steps the insight is info whatever the last row holds.
C29_PercentPolicy ==
    adv.bucket \in {"success", "warning", "info"} =>
        LET last == store.rows[Len(store.rows)].Steps
            previous == store.rows[Len(store.rows) - 1].Steps
        IN  IF previous = 0 THEN adv.bucket = "info"
            ELSE /\ adv.bucket = "success" <=> 100 * (last - previous) > 5 * previous
                 /\ adv.bucket = "warning" <=> 100 * (last - previous) < -5 * previous

\* The day before had 0 steps, the last day had some, and the insight is info.
C29_Witness ==
    /\ adv.bucket = "info"
    /\ store.rows[Len(store.rows) - 1].Steps = 0
    /\ store.rows[Len(store.rows)].Steps > 0

(***************************************************************************)
(* The day dropdown and its advice callback (specification SpecDropdown):  *)
(* 9VqS, 4EJM, Dic7 and Ms8I with a data.csv whose days need not start on  *)
(* Monday and may repeat.                                                  *)
(***************************************************************************)
\* Days and steps data.csv is filled with; every day is a weekday name.
DropdownDays == {"Monday", "Tuesday", "Wednesday"}

DropdownSteps == {8, 12, 1000}

DropdownRows ==
    {[Day |-> d, Steps |-> n, Calories |-> n \div 20] : d \in DropdownDays, n \in DropdownSteps}

\* data.csv with at least one row: the import takes int(df["Steps"].mean()).
DropdownData == SeqsUpTo(DropdownRows, MaxRows) \ {<<>>}

\* dcc.Dropdown(value="Monday")
DefaultDay == "Monday"

DropdownVariants == {"9VqS", "4EJM", "Dic7", "Ms8I"}

\* The callback the variant registers on day-dropdown.value.
AdviceCallback(v, rows, day) ==
    CASE v = "9VqS" -> update_advice(rows, day)
      [] v = "4EJM" -> update_advice_4EJM(rows, day)
      [] v = "Dic7" -> generate_advice(rows, day)
      [] OTHER -> advice_output(rows, day)

InitDropdown ==
    /\ variant \in DropdownVariants
    /\ csvfile \in {CsvFile(a_csv, AllCols, d) : d \in DropdownData}
    /\ df = load_df(csvfile)
    /\ pathname = "/"
    /\ store = Absent
    /\ page = NoPage
    /\ status = ""
    /\ fault = "none"
    /\ pending = <<>>
    /\ adv = NoAdv
    /\ userActed = FALSE

\* The dropdown is rendered: the initial call of the callback with the
\* default value.
InitialAdvice ==
    /\ adv = NoAdv
    /\ adv' = [day |-> DefaultDay, bucket |-> AdviceCallback(variant, df, DefaultDay)]
    /\ fault' = IF adv'.bucket = "IndexError" THEN "IndexError" ELSE "none"
    /\ UNCHANGED <<variant, csvfile, df, pathname, store, page, status, pending, userActed>>

\* The user picks one of the options.
SelectOption(d) ==
    /\ adv # NoAdv
    /\ d \in DayOptions(df)
    /\ adv' = [day |-> d, bucket |-> AdviceCallback(variant, df, d)]
    /\ fault' = IF adv'.bucket = "IndexError" THEN "IndexError" ELSE "none"
    /\ userActed' = TRUE
    /\ UNCHANGED <<variant, csvfile, df, pathname, store, page, status, pending>>

NextDropdown ==
    \/ InitialAdvice
    \/ \E d \in Weekdays : SelectOption(d)

SpecDropdown == InitDropdown /\ [][NextDropdown]_vars

\* The first row in dataset order whose Day is d; 0 when there is none.
FirstRowOf(d) ==
    IF \E i \in DOMAIN df : df[i].Day = d
    THEN CHOOSE i \in DOMAIN df : df[i].Day = d /\ \A j \in 1..(i - 1) : df[j].Day # d
    ELSE 0

\* C30: the advice callback answers every selection, the default "Monday"
\* and each option: the selection is the day of some row, the callback does
\* not fail, and the advice is the one for the steps of the first row in
\* dataset order with that day.
C30_SelectionResolves ==
    adv # NoAdv =>
        /\ FirstRowOf(adv.day) # 0
        /\ fault = "none"
        /\ adv.bucket = BucketOfMean(df[FirstRowOf(adv.day)].Steps, SumSteps(df) \div Len(df), 1)

====
